---- MODULE Spec2Model ----
(***************************************************************************)
(* Attendance bot (src/main.py): the session registry kept by on_message,  *)
(* the /party check-in recorder and the three aggregation commands         *)
(* (/attendance_percent, /attendance_stats, /leaderboard) over a           *)
(* spreadsheet ledger read with get_all_records and written with           *)
(* append_row.                                                             *)
(*                                                                         *)
(* Every handler is an asyncio coroutine; the gspread calls are            *)
(* synchronous, so the code between two awaits is one atomic step.         *)
(***************************************************************************)
EXTENDS Integers, Sequences, FiniteSets, TLC

VARIABLES header, ledger, active, clock, pending, resp

vars == <<header, ledger, active, clock, pending, resp>>

(***************************************************************************)
(* Bounds of the model.                                                    *)
(***************************************************************************)
\* most rows the ledger holds before check-ins stop being issued
MaxLedger == 3
\* most of the six name options of /party that are filled in one call
MaxMentions == 2
\* most rows of a pre-existing sheet in the aggregation specification
MaxSheetRows == 3

\* name1 .. name6 of /party
MaxNames == 6

(***************************************************************************)
(* Values.                                                                 *)
(***************************************************************************)
\* Python's None, for a text value and for an absent name option
None == "<None>"

\* display names of guild members
Members == {"Bob", "Carol"}

\* channels: id -> name (the event name of a check-in is the channel name)
Channels == {1, 2}
ChannelName(ch) == IF ch = 1 THEN "E1" ELSE "E2"

Author == "Alice"
ImageUrl == "img"

Requests == {"r1", "r2"}

(***************************************************************************)
(* Time.  A datetime is [ord, sec, us]: the day (days since 2024-01-01),   *)
(* the second of the day and the microsecond of the second.                *)
(***************************************************************************)
DateTime(o, s, u) == [ord |-> o, sec |-> s, us |-> u]

\* a <= b on datetimes
DtLeq(a, b) ==
    \/ a.ord < b.ord
    \/ a.ord = b.ord /\ a.sec < b.sec
    \/ a.ord = b.ord /\ a.sec = b.sec /\ a.us <= b.us

DtLess(a, b) == DtLeq(a, b) /\ a # b

\* now - datetime.timedelta(days=15)
FifteenDays == 15
MinusDays(dt, n) == [dt EXCEPT !.ord = dt.ord - n]

\* the calendar of 2024 (a leap year) and 2025
DaysIn2024 == 365 + 1
MonthLengths(leap) ==
    <<31, IF leap THEN 29 ELSE 28, 31, 30, 31, 30, 31, 31, 30, 31, 30, 31>>

YearOf(o) == IF o < 0 THEN 2023 ELSE IF o < DaysIn2024 THEN 2024 ELSE 2025

DayOfYear(o) ==
    IF o < 0 THEN o + 365 ELSE IF o < DaysIn2024 THEN o ELSE o - DaysIn2024

RECURSIVE MonthFrom(_, _, _)
MonthFrom(d, m, lens) ==
    IF m >= 12 \/ d < lens[m] THEN m ELSE MonthFrom(d - lens[m], m + 1, lens)

MonthOf(o) == MonthFrom(DayOfYear(o), 1, MonthLengths(YearOf(o) = 2024))

(***************************************************************************)
(* Cells of the sheet.  A row is <<timestamp, recorder, member, evidence,  *)
(* event>>.  The timestamp cell is a record: kind "ts" is a string of the  *)
(* form YYYY-MM-DD HH:MM:SS, "bad" any other non-empty text, "blank" the   *)
(* empty cell, "none" an absent column.  The other cells are strings.      *)
(***************************************************************************)
TsCell(o, s) == [kind |-> "ts", ord |-> o, sec |-> s]
BadTs == [kind |-> "bad", ord |-> 0, sec |-> 0]
BlankTs == [kind |-> "blank", ord |-> 0, sec |-> 0]
NoneTs == [kind |-> "none", ord |-> 0, sec |-> 0]

\* strftime('%Y-%m-%d %H:%M:%S'): the microseconds are dropped
StrfTime(dt) == TsCell(dt.ord, dt.sec)

\* strptime(s, "%Y-%m-%d %H:%M:%S"): ok = FALSE stands for the exception
StrpTime(c) ==
    IF c.kind = "ts"
    THEN [ok |-> TRUE, dt |-> DateTime(c.ord, c.sec, 0)]
    ELSE [ok |-> FALSE, dt |-> DateTime(0, 0, 0)]

(***************************************************************************)
(* The sheet as gspread shows it.  get_all_records() takes the first row   *)
(* as the column names and returns one mapping per later row, with every   *)
(* value that reads as a number converted to a number; append_row adds the *)
(* values by position.  The names of the columns are the sheet's, not the  *)
(* program's: the aggregation commands read "Timestamp", "Member" and      *)
(* "Event", /party reads "Name" and "Party".                               *)
(***************************************************************************)
ReaderHeader == <<"Timestamp", "Recorder", "Member", "EvidenceRef", "Event">>
PartyHeader == <<"Timestamp", "Recorder", "Party", "EvidenceRef", "Name">>
Headers == {ReaderHeader, PartyHeader}

\* the number n read from a cell is the value "int:n", which equals no string
Numericise(s) ==
    CASE s = "7" -> "int:7"
      [] s = "0" -> "int:0"
      [] OTHER -> s

IsStr(v) == v \notin {None, "int:7", "int:0"}

\* Python truth of a text value
Truthy(v) == v \notin {None, "", "int:0"}

\* Python truth of a timestamp value
TsTruthy(c) == c.kind \notin {"none", "blank"}

ColumnOf(h, name) == CHOOSE i \in 1..Len(h) : h[i] = name

Columns(h) == {h[i] : i \in 1..Len(h)}

\* one row as a mapping of column name to value
RowRecord(h, row) ==
    [name \in Columns(h) |->
        IF ColumnOf(h, name) = 1 THEN row[1] ELSE Numericise(row[ColumnOf(h, name)])]

GetAllRecords(h, rows) == [i \in 1..Len(rows) |-> RowRecord(h, rows[i])]

\* row.get(name) for a text column and for the timestamp column
Get(rec, name) == IF name \in DOMAIN rec THEN rec[name] ELSE None
GetTs(rec, name) == IF name \in DOMAIN rec THEN rec[name] ELSE NoneTs

(***************************************************************************)
(* Percentages.  (attended / total_events) * 100 is kept as the fraction   *)
(* num/den: for the counts of a sheet the float product orders and equals  *)
(* as the fraction does.                                                   *)
(***************************************************************************)
Percent(attended, total_events) == [num |-> attended * 100, den |-> total_events]

\* no percentage computed
NoPercent == [num |-> 0, den |-> 0]

PctLess(p, q) == p.num * q.den < q.num * p.den
PctEq(p, q) == p.num * q.den = q.num * p.den
PctIs100(p) == p.num = 100 * p.den

(***************************************************************************)
(* Responses.  resp is what the last handler step sent, with the store     *)
(* calls that step made.  Kind "Unhandled": the handler ended by an        *)
(* exception it does not catch (error names it) and sent nothing.  For     *)
(* /party, members are the attendees given.  failed names the store call   *)
(* that raised, if one did; seen is the number of rows the read returned   *)
(* and, for a call that was suspended at its deferral, since is the number *)
(* of rows the sheet had then.                                             *)
(***************************************************************************)
NoResp ==
    [op |-> "none", kind |-> "none", channel |-> 0,
     member |-> None, members |-> <<>>, outcomes |-> <<>>, error |-> "",
     failed |-> "", reads |-> 0, seen |-> 0, since |-> 0, appends |-> 0,
     attended |-> 0, total |-> 0, percent |-> NoPercent,
     last15 |-> 0, month |-> 0, board |-> <<>>]

Idle == [pc |-> "idle", channel |-> 0, names |-> <<>>, since |-> 0]

(***************************************************************************)
(* on_message                                                              *)
(***************************************************************************)
\* on_message with a mention that switches the channel: an active channel
\* is taken out of the set
OnMessageToggle(ch, authorIsBot, mentionsBot, isAdmin) ==
    /\ IF authorIsBot
       THEN /\ active' = active
            /\ resp' = [NoResp EXCEPT !.op = "on_message", !.channel = ch]
       ELSE IF mentionsBot
            THEN IF isAdmin
                 THEN /\ active' = IF ch \in active THEN active \ {ch}
                                                   ELSE active \cup {ch}
                      /\ resp' = [NoResp EXCEPT !.op = "on_message", !.channel = ch,
                                                !.kind = "Activated"]
                 ELSE /\ active' = active
                      /\ resp' = [NoResp EXCEPT !.op = "on_message", !.channel = ch,
                                                !.kind = "AdminRequired"]
            ELSE /\ active' = active
                 /\ resp' = [NoResp EXCEPT !.op = "on_message", !.channel = ch]
    /\ UNCHANGED <<header, ledger, clock, pending>>

\* on_message without the test of line 57: any mention by a member
\* activates the channel
OnMessageAnyone(ch, authorIsBot, mentionsBot, isAdmin) ==
    /\ IF authorIsBot
       THEN /\ active' = active
            /\ resp' = [NoResp EXCEPT !.op = "on_message", !.channel = ch]
       ELSE IF mentionsBot
            THEN /\ active' = active \cup {ch}
                 /\ resp' = [NoResp EXCEPT !.op = "on_message", !.channel = ch,
                                           !.kind = "Activated"]
            ELSE /\ active' = active
                 /\ resp' = [NoResp EXCEPT !.op = "on_message", !.channel = ch]
    /\ UNCHANGED <<header, ledger, clock, pending>>

OnMessage(ch, authorIsBot, mentionsBot, isAdmin) ==
    /\ IF authorIsBot
       THEN /\ active' = active
            /\ resp' = [NoResp EXCEPT !.op = "on_message", !.channel = ch]
       ELSE IF mentionsBot
            THEN IF isAdmin
                 THEN /\ active' = active \cup {ch}
                      /\ resp' = [NoResp EXCEPT !.op = "on_message", !.channel = ch,
                                                !.kind = "Activated"]
                 ELSE /\ active' = active
                      /\ resp' = [NoResp EXCEPT !.op = "on_message", !.channel = ch,
                                                !.kind = "AdminRequired"]
            ELSE /\ active' = active
                 /\ resp' = [NoResp EXCEPT !.op = "on_message", !.channel = ch]
    /\ UNCHANGED <<header, ledger, clock, pending>>

(***************************************************************************)
(* /party                                                                  *)
(***************************************************************************)
\* the values of name1 .. name6: name1 is required, and the options filled
\* in are among the first MaxMentions + 1
NameArgs ==
    UNION {{[i \in 1..MaxNames |-> IF i \in filled THEN given[i] ELSE None] :
                given \in [filled -> Members]} :
            filled \in {f \in SUBSET (1..(MaxMentions + 1)) :
                            1 \in f /\ Cardinality(f) <= MaxMentions}}

\* [name for name in [name1, ..., name6] if name is not None]
RECURSIVE Mentioned(_, _)
Mentioned(names, i) ==
    IF i > Len(names) THEN <<>>
    ELSE IF names[i] # None THEN <<names[i]>> \o Mentioned(names, i + 1)
    ELSE Mentioned(names, i + 1)

\* the set comprehension of lines 102-105; error names the exception it
\* raises: KeyError for a column the sheet does not have, TypeError for a
\* number concatenated to a string
AlreadyRecorded(records, event_name) ==
    LET n == Len(records)
        hasName == \A i \in 1..n : "Name" \in DOMAIN records[i]
        hits == {i \in 1..n : hasName /\ records[i]["Name"] = event_name}
        hasParty == \A i \in hits : "Party" \in DOMAIN records[i]
        strParty == \A i \in hits : hasParty /\ IsStr(records[i]["Party"])
    IN  [error |-> IF ~(hasName /\ hasParty) THEN "KeyError"
                   ELSE IF ~strParty THEN "TypeError" ELSE "",
         keys |-> IF hasName /\ strParty
                  THEN {<<records[i]["Name"], records[i]["Party"]>> : i \in hits}
                  ELSE {}]

\* the loop of lines 108-114 from member i on; budget is the number of
\* append_row calls the store accepts before one raises
RECURSIVE CheckInLoop(_, _, _, _, _, _, _)
CheckInLoop(members, i, already_recorded, event_name, timestamp, budget, acc) ==
    IF i > Len(members) THEN acc
    ELSE IF <<event_name, members[i]>> \in already_recorded
    THEN CheckInLoop(members, i + 1, already_recorded, event_name, timestamp, budget,
            [acc EXCEPT !.lines = Append(@, [member |-> members[i],
                                             outcome |-> "Duplicate"])])
    ELSE IF Len(acc.rows) >= budget
    THEN [acc EXCEPT !.raised = TRUE]
    ELSE CheckInLoop(members, i + 1, already_recorded, event_name, timestamp, budget,
            [acc EXCEPT !.rows = Append(@, <<timestamp, Author, members[i],
                                             ImageUrl, event_name>>),
                        !.lines = Append(@, [member |-> members[i],
                                             outcome |-> "Recorded"])])

\* lines 90-120 as a function of what the handler reads: the rows it
\* appends and what it sends
CheckIn(h, rows, now, channel, names, readOk, budget) ==
    LET timestamp == StrfTime(now)
        event_name == ChannelName(channel)
        members == Mentioned(names, 1)
        base == [NoResp EXCEPT !.op = "party", !.channel = channel,
                               !.members = members]
        raised == [base EXCEPT !.kind = "Unhandled", !.reads = 1]
        read == [raised EXCEPT !.seen = Len(rows)]
    IN  IF members = <<>>
        THEN [rows |-> <<>>, resp |-> [base EXCEPT !.kind = "NoAttendeesSpecified"]]
        ELSE IF ~readOk
        THEN [rows |-> <<>>, resp |-> [raised EXCEPT !.error = "APIError",
                                                     !.failed = "get_all_records"]]
        ELSE LET existing_records == GetAllRecords(h, rows)
                 already == AlreadyRecorded(existing_records, event_name)
                 out == CheckInLoop(members, 1, already.keys, event_name, timestamp,
                            budget, [rows |-> <<>>, lines |-> <<>>, raised |-> FALSE])
             IN  IF already.error # ""
                 THEN [rows |-> <<>>, resp |-> [read EXCEPT !.error = already.error]]
                 ELSE IF out.raised
                 THEN [rows |-> out.rows,
                       resp |-> [read EXCEPT !.error = "APIError",
                                             !.failed = "append_row",
                                             !.appends = Len(out.rows)]]
                 ELSE [rows |-> out.rows,
                       resp |-> [base EXCEPT !.kind = "Summary", !.reads = 1,
                                             !.seen = Len(rows),
                                             !.appends = Len(out.rows),
                                             !.outcomes = out.lines]]

\* lines 85-87: the rejection of a check-in in a channel that is not active
NotActive(channel) ==
    [NoResp EXCEPT !.op = "party", !.channel = channel, !.kind = "SessionNotActive"]

\* /party without the test of line 85
PartyUngated(ch, names, readOk, budget) ==
    /\ \A r \in Requests : pending[r].pc = "idle"
    /\ \E out \in {CheckIn(header, ledger, clock, ch, names, readOk, budget)} :
           /\ Len(ledger) + Len(out.rows) <= MaxLedger
           /\ ledger' = ledger \o out.rows
           /\ resp' = out.resp
    /\ UNCHANGED <<header, active, clock, pending>>

\* /party with sheet.insert_row(values, 2) for line 113: the row goes above
\* the rows of the sheet
PartyInsertRow(ch, names, readOk, budget) ==
    /\ \A r \in Requests : pending[r].pc = "idle"
    /\ IF ch \notin active
       THEN /\ resp' = NotActive(ch)
            /\ ledger' = ledger
       ELSE \E out \in {CheckIn(header, ledger, clock, ch, names, readOk, budget)} :
                /\ Len(ledger) + Len(out.rows) <= MaxLedger
                /\ ledger' = out.rows \o ledger
                /\ resp' = out.resp
    /\ UNCHANGED <<header, active, clock, pending>>

\* /party with no other handler running at its awaits
Party(ch, names, readOk, budget) ==
    /\ \A r \in Requests : pending[r].pc = "idle"
    /\ IF ch \notin active
       THEN /\ resp' = NotActive(ch)
            /\ ledger' = ledger
       ELSE \E out \in {CheckIn(header, ledger, clock, ch, names, readOk, budget)} :
                /\ Len(ledger) + Len(out.rows) <= MaxLedger
                /\ ledger' = ledger \o out.rows
                /\ resp' = out.resp
    /\ UNCHANGED <<header, active, clock, pending>>

\* /party up to its first await (lines 85-89): the gate, then the deferral
PartyGate(r, ch, names) ==
    /\ pending[r].pc = "idle"
    /\ IF ch \notin active
       THEN /\ resp' = NotActive(ch)
            /\ pending' = pending
       ELSE /\ pending' = [pending EXCEPT ![r] = [pc |-> "deferred", channel |-> ch,
                                                  names |-> names,
                                                  since |-> Len(ledger)]]
            /\ resp' = resp
    /\ UNCHANGED <<header, ledger, active, clock>>

\* /party with the read of line 101 made before the await of line 89: the
\* rows it decides on are those the sheet had at the deferral
PartyBodyStale(r, readOk, budget) ==
    /\ pending[r].pc = "deferred"
    /\ \E out \in {CheckIn(header, SubSeq(ledger, 1, pending[r].since), clock,
                          pending[r].channel, pending[r].names, readOk, budget)} :
           /\ Len(ledger) + Len(out.rows) <= MaxLedger
           /\ ledger' = ledger \o out.rows
           /\ resp' = [out.resp EXCEPT !.since = pending[r].since]
    /\ pending' = [pending EXCEPT ![r] = Idle]
    /\ UNCHANGED <<header, active, clock>>

\* /party from the deferral to the end (lines 90-120): no await comes
\* between the read of line 101 and the last append of line 113
PartyBody(r, readOk, budget) ==
    /\ pending[r].pc = "deferred"
    /\ \E out \in {CheckIn(header, ledger, clock, pending[r].channel, pending[r].names,
                          readOk, budget)} :
           /\ Len(ledger) + Len(out.rows) <= MaxLedger
           /\ ledger' = ledger \o out.rows
           /\ resp' = [out.resp EXCEPT !.since = pending[r].since]
    /\ pending' = [pending EXCEPT ![r] = Idle]
    /\ UNCHANGED <<header, active, clock>>

(***************************************************************************)
(* /attendance_percent                                                     *)
(***************************************************************************)
\* the loop of lines 137-144 from row i on
RECURSIVE PercentScan(_, _, _, _)
PercentScan(records, i, display_name, acc) ==
    IF i > Len(records) THEN acc
    ELSE LET event == Get(records[i], "Event")
             attendee == Get(records[i], "Member")
         IN  IF Truthy(event) /\ Truthy(attendee)
             THEN PercentScan(records, i + 1, display_name,
                     [all_events |-> acc.all_events \cup {event},
                      member_events |-> IF attendee = display_name
                                        THEN acc.member_events \cup {event}
                                        ELSE acc.member_events])
             ELSE PercentScan(records, i + 1, display_name, acc)

\* the loop of lines 137-144 with line 143 outside the test of line 141
RECURSIVE PercentScanLoose(_, _, _, _)
PercentScanLoose(records, i, display_name, acc) ==
    IF i > Len(records) THEN acc
    ELSE LET event == Get(records[i], "Event")
             attendee == Get(records[i], "Member")
         IN  PercentScanLoose(records, i + 1, display_name,
                 [all_events |-> IF Truthy(event) /\ Truthy(attendee)
                                 THEN acc.all_events \cup {event}
                                 ELSE acc.all_events,
                  member_events |-> IF attendee = display_name
                                    THEN acc.member_events \cup {event}
                                    ELSE acc.member_events])

PercentOfLoose(records, display_name) ==
    PercentScanLoose(records, 1, display_name, [all_events |-> {}, member_events |-> {}])

PercentOf(records, display_name) ==
    PercentScan(records, 1, display_name, [all_events |-> {}, member_events |-> {}])

\* /attendance_percent with the test of line 149 on attended
AttendancePercentWrongTest(member, readOk) ==
    /\ LET base == [NoResp EXCEPT !.op = "attendance_percent", !.member = member,
                                  !.reads = 1]
       IN  IF ~readOk
           THEN resp' = [base EXCEPT !.kind = "StoreUnavailable",
                                     !.failed = "get_all_records"]
           ELSE LET sets == PercentOf(GetAllRecords(header, ledger), member)
                    total_events == Cardinality(sets.all_events)
                    attended == Cardinality(sets.member_events)
                IN  IF attended = 0
                    THEN resp' = [base EXCEPT !.kind = "NoEventsRecorded"]
                    ELSE resp' = [base EXCEPT !.kind = "Percentage",
                                              !.attended = attended,
                                              !.total = total_events,
                                              !.percent = Percent(attended, total_events)]
    /\ UNCHANGED <<header, ledger, active, clock, pending>>

AttendancePercent(member, readOk) ==
    /\ LET base == [NoResp EXCEPT !.op = "attendance_percent", !.member = member,
                                  !.reads = 1]
       IN  IF ~readOk
           THEN resp' = [base EXCEPT !.kind = "StoreUnavailable",
                                     !.failed = "get_all_records"]
           ELSE LET sets == PercentOf(GetAllRecords(header, ledger), member)
                    total_events == Cardinality(sets.all_events)
                    attended == Cardinality(sets.member_events)
                IN  IF total_events = 0
                    THEN resp' = [base EXCEPT !.kind = "NoEventsRecorded"]
                    ELSE resp' = [base EXCEPT !.kind = "Percentage",
                                              !.attended = attended,
                                              !.total = total_events,
                                              !.percent = Percent(attended, total_events)]
    /\ UNCHANGED <<header, ledger, active, clock, pending>>

(***************************************************************************)
(* /attendance_stats                                                       *)
(***************************************************************************)
\* the loop of lines 185-207 from row i on
RECURSIVE StatsScan(_, _, _, _, _)
StatsScan(records, i, display_name, now, acc) ==
    IF i > Len(records) THEN acc
    ELSE LET event == Get(records[i], "Event")
             attendee == Get(records[i], "Member")
             timestamp_str == GetTs(records[i], "Timestamp")
             parsed == StrpTime(timestamp_str)
             fifteen_days_ago == MinusDays(now, FifteenDays)
         IN  IF ~(Truthy(event) /\ Truthy(attendee) /\ TsTruthy(timestamp_str))
             THEN StatsScan(records, i + 1, display_name, now, acc)
             ELSE IF attendee # display_name
             THEN StatsScan(records, i + 1, display_name, now,
                     [acc EXCEPT !.all_events = @ \cup {event}])
             ELSE IF ~parsed.ok
             THEN StatsScan(records, i + 1, display_name, now,
                     [acc EXCEPT !.all_events = @ \cup {event},
                                 !.total_attended = @ \cup {event}])
             ELSE StatsScan(records, i + 1, display_name, now,
                     [acc EXCEPT !.all_events = @ \cup {event},
                                 !.total_attended = @ \cup {event},
                                 !.last_15_days =
                                     IF DtLeq(fifteen_days_ago, parsed.dt)
                                     THEN @ \cup {event} ELSE @,
                                 !.current_month_events =
                                     IF /\ MonthOf(parsed.dt.ord) = MonthOf(now.ord)
                                        /\ YearOf(parsed.dt.ord) = YearOf(now.ord)
                                     THEN @ \cup {event} ELSE @])

\* the loop of lines 185-207 with the try block outside the test of line 195
RECURSIVE StatsScanDedented(_, _, _, _, _)
StatsScanDedented(records, i, display_name, now, acc) ==
    IF i > Len(records) THEN acc
    ELSE LET event == Get(records[i], "Event")
             attendee == Get(records[i], "Member")
             timestamp_str == GetTs(records[i], "Timestamp")
             parsed == StrpTime(timestamp_str)
             fifteen_days_ago == MinusDays(now, FifteenDays)
         IN  IF ~(Truthy(event) /\ Truthy(attendee) /\ TsTruthy(timestamp_str))
             THEN StatsScanDedented(records, i + 1, display_name, now, acc)
             ELSE StatsScanDedented(records, i + 1, display_name, now,
                     [all_events |-> acc.all_events \cup {event},
                      total_attended |-> IF attendee = display_name
                                         THEN acc.total_attended \cup {event}
                                         ELSE acc.total_attended,
                      last_15_days |->
                          IF parsed.ok /\ DtLeq(fifteen_days_ago, parsed.dt)
                          THEN acc.last_15_days \cup {event} ELSE acc.last_15_days,
                      current_month_events |->
                          IF /\ parsed.ok
                             /\ MonthOf(parsed.dt.ord) = MonthOf(now.ord)
                             /\ YearOf(parsed.dt.ord) = YearOf(now.ord)
                          THEN acc.current_month_events \cup {event}
                          ELSE acc.current_month_events])

StatsOfDedented(records, display_name, now) ==
    StatsScanDedented(records, 1, display_name, now,
        [all_events |-> {}, total_attended |-> {}, last_15_days |-> {},
         current_month_events |-> {}])

\* the loop of lines 185-207 with > for >= in line 200
RECURSIVE StatsScanStrict(_, _, _, _, _)
StatsScanStrict(records, i, display_name, now, acc) ==
    IF i > Len(records) THEN acc
    ELSE LET event == Get(records[i], "Event")
             attendee == Get(records[i], "Member")
             timestamp_str == GetTs(records[i], "Timestamp")
             parsed == StrpTime(timestamp_str)
             fifteen_days_ago == MinusDays(now, FifteenDays)
         IN  IF ~(Truthy(event) /\ Truthy(attendee) /\ TsTruthy(timestamp_str))
             THEN StatsScanStrict(records, i + 1, display_name, now, acc)
             ELSE IF attendee # display_name
             THEN StatsScanStrict(records, i + 1, display_name, now,
                     [acc EXCEPT !.all_events = @ \cup {event}])
             ELSE IF ~parsed.ok
             THEN StatsScanStrict(records, i + 1, display_name, now,
                     [acc EXCEPT !.all_events = @ \cup {event},
                                 !.total_attended = @ \cup {event}])
             ELSE StatsScanStrict(records, i + 1, display_name, now,
                     [acc EXCEPT !.all_events = @ \cup {event},
                                 !.total_attended = @ \cup {event},
                                 !.last_15_days =
                                     IF DtLess(fifteen_days_ago, parsed.dt)
                                     THEN @ \cup {event} ELSE @,
                                 !.current_month_events =
                                     IF /\ MonthOf(parsed.dt.ord) = MonthOf(now.ord)
                                        /\ YearOf(parsed.dt.ord) = YearOf(now.ord)
                                     THEN @ \cup {event} ELSE @])

StatsOfStrict(records, display_name, now) ==
    StatsScanStrict(records, 1, display_name, now,
        [all_events |-> {}, total_attended |-> {}, last_15_days |-> {},
         current_month_events |-> {}])

StatsOf(records, display_name, now) ==
    StatsScan(records, 1, display_name, now,
        [all_events |-> {}, total_attended |-> {}, last_15_days |-> {},
         current_month_events |-> {}])

AttendanceStats(member, readOk) ==
    /\ LET base == [NoResp EXCEPT !.op = "attendance_stats", !.member = member,
                                  !.reads = 1]
       IN  IF ~readOk
           THEN resp' = [base EXCEPT !.kind = "StoreUnavailable",
                                     !.failed = "get_all_records"]
           ELSE LET sets == StatsOf(GetAllRecords(header, ledger), member, clock)
                IN  resp' = [base EXCEPT !.kind = "Stats",
                                !.total = Cardinality(sets.all_events),
                                !.attended = Cardinality(sets.total_attended),
                                !.last15 = Cardinality(sets.last_15_days),
                                !.month = Cardinality(sets.current_month_events)]
    /\ UNCHANGED <<header, ledger, active, clock, pending>>

(***************************************************************************)
(* /leaderboard                                                            *)
(***************************************************************************)
\* member_attendance is a dict: its items come in the order the keys were
\* first inserted, so it is kept as a sequence of [member, events]
IndexOfMember(member_attendance, member) ==
    IF \E k \in 1..Len(member_attendance) : member_attendance[k].member = member
    THEN CHOOSE k \in 1..Len(member_attendance) : member_attendance[k].member = member
    ELSE 0

\* the loop of lines 238-248 from row i on
RECURSIVE BoardScan(_, _, _)
BoardScan(records, i, acc) ==
    IF i > Len(records) THEN acc
    ELSE LET member == Get(records[i], "Member")
             event == Get(records[i], "Event")
             k == IndexOfMember(acc.member_attendance, member)
         IN  IF ~(Truthy(member) /\ Truthy(event))
             THEN BoardScan(records, i + 1, acc)
             ELSE BoardScan(records, i + 1,
                     [event_set |-> acc.event_set \cup {event},
                      member_attendance |->
                          IF k = 0
                          THEN Append(acc.member_attendance,
                                      [member |-> member, events |-> {event}])
                          ELSE [acc.member_attendance EXCEPT ![k].events = @ \cup {event}]])

\* an entry for every row, as a list in place of the dict would give
RECURSIVE BoardScanList(_, _, _)
BoardScanList(records, i, acc) ==
    IF i > Len(records) THEN acc
    ELSE LET member == Get(records[i], "Member")
             event == Get(records[i], "Event")
         IN  IF ~(Truthy(member) /\ Truthy(event))
             THEN BoardScanList(records, i + 1, acc)
             ELSE BoardScanList(records, i + 1,
                     [event_set |-> acc.event_set \cup {event},
                      member_attendance |->
                          Append(acc.member_attendance,
                                 [member |-> member, events |-> {event}])])

BoardOfList(records) ==
    BoardScanList(records, 1, [event_set |-> {}, member_attendance |-> <<>>])

BoardOf(records) ==
    BoardScan(records, 1, [event_set |-> {}, member_attendance |-> <<>>])

\* lines 256-259
RECURSIVE LeaderboardData(_, _, _)
LeaderboardData(member_attendance, k, total_events) ==
    IF k > Len(member_attendance) THEN <<>>
    ELSE <<[member |-> member_attendance[k].member,
            percent |-> Percent(Cardinality(member_attendance[k].events), total_events)]>>
         \o LeaderboardData(member_attendance, k + 1, total_events)

\* the place of x without reverse=True: behind every entry whose percent is
\* not larger
InsertAscending(board, x) ==
    LET behind == {k \in 1..Len(board) : ~PctLess(x.percent, board[k].percent)}
        n == IF behind = {} THEN 0 ELSE CHOOSE k \in behind : \A j \in behind : j <= k
    IN  SubSeq(board, 1, n) \o <<x>> \o SubSeq(board, n + 1, Len(board))

\* the place of x when an ascending sort is reversed afterwards: before the
\* entries of equal percent
InsertBeforeEqual(board, x) ==
    LET behind == {k \in 1..Len(board) : PctLess(x.percent, board[k].percent)}
        n == IF behind = {} THEN 0 ELSE CHOOSE k \in behind : \A j \in behind : j <= k
    IN  SubSeq(board, 1, n) \o <<x>> \o SubSeq(board, n + 1, Len(board))

\* where sorted(..., reverse=True) puts x among the entries already placed:
\* behind every entry whose percent is not smaller (the sort is stable)
InsertByPercent(board, x) ==
    LET behind == {k \in 1..Len(board) : ~PctLess(board[k].percent, x.percent)}
        n == IF behind = {} THEN 0 ELSE CHOOSE k \in behind : \A j \in behind : j <= k
    IN  SubSeq(board, 1, n) \o <<x>> \o SubSeq(board, n + 1, Len(board))

\* sorted(leaderboard_data, key=lambda x: x[1], reverse=True)
RECURSIVE SortedBoard(_, _)
SortedBoard(data, k) ==
    IF k = 0 THEN <<>> ELSE InsertByPercent(SortedBoard(data, k - 1), data[k])

\* enumerate(sorted_board, start=1)
Ranked(board) ==
    [k \in 1..Len(board) |->
        [rank |-> k, member |-> board[k].member, percent |-> board[k].percent]]


Leaderboard(readOk) ==
    /\ LET base == [NoResp EXCEPT !.op = "leaderboard", !.reads = 1]
       IN  IF ~readOk
           THEN resp' = [base EXCEPT !.kind = "StoreUnavailable",
                                     !.failed = "get_all_records"]
           ELSE LET scan == BoardOf(GetAllRecords(header, ledger))
                    total_events == Cardinality(scan.event_set)
                    data == LeaderboardData(scan.member_attendance, 1, total_events)
                IN  IF total_events = 0
                    THEN resp' = [base EXCEPT !.kind = "NoEventsRecorded"]
                    ELSE resp' = [base EXCEPT !.kind = "Ranking",
                                     !.total = total_events,
                                     !.board = Ranked(SortedBoard(data, Len(data)))]
    /\ UNCHANGED <<header, ledger, active, clock, pending>>

(***************************************************************************)
(* The clock read by utcnow().                                             *)
(***************************************************************************)
\* 2024-03-16 00:00:00.000000, the same second one microsecond on, and
\* 2025-03-11
Instants == {DateTime(75, 0, 0), DateTime(75, 0, 1), DateTime(435, 0, 0)}

Tick(t) ==
    /\ DtLess(clock, t)
    /\ clock' = t
    /\ UNCHANGED <<header, ledger, active, pending, resp>>

(***************************************************************************)
(* The bot from its start on an empty sheet.                               *)
(***************************************************************************)
QueryNames == Members

Init ==
    /\ header \in Headers
    /\ ledger = <<>>
    /\ active = {}
    /\ clock = DateTime(75, 0, 0)
    /\ pending = [r \in Requests |-> Idle]
    /\ resp = NoResp

\* how the store answers one handler: the read fails, or it succeeds and
\* the budget-th append_row after it fails (MaxNames: none does)
StoreRuns ==
    {[readOk |-> FALSE, budget |-> 0]}
        \cup {[readOk |-> TRUE, budget |-> b] : b \in (0..(MaxMentions - 1)) \cup {MaxNames}}

Messages ==
    \E ch \in Channels, authorIsBot, mentionsBot, isAdmin \in BOOLEAN :
        OnMessage(ch, authorIsBot, mentionsBot, isAdmin)

CheckIns ==
    \E ch \in Channels, names \in NameArgs, run \in StoreRuns :
        Party(ch, names, run.readOk, run.budget)

Percentages == \E member \in QueryNames, readOk \in BOOLEAN : AttendancePercent(member, readOk)

Statistics == \E member \in QueryNames, readOk \in BOOLEAN : AttendanceStats(member, readOk)

Leaderboards == \E readOk \in BOOLEAN : Leaderboard(readOk)

Ticks == \E t \in Instants : Tick(t)

Next == Messages \/ CheckIns \/ Ticks

Spec == Init /\ [][Next]_vars

(***************************************************************************)
(* The aggregation commands over a sheet that already has rows, written by *)
(* the bot or edited by hand, under the columns these commands read.       *)
(***************************************************************************)
\* rows as /party writes them, dated 2024-03-01 00:00:00
WrittenRows ==
    {<<TsCell(60, 0), Author, m, ImageUrl, ChannelName(ch)>> :
        m \in Members, ch \in Channels}

\* rows dated 2024-04-01, with a timestamp that does not parse, with an
\* empty cell, and with a member name made of digits
EditedRows ==
    {<<TsCell(91, 0), Author, "Carol", ImageUrl, "E2">>,
     <<BadTs, Author, "Bob", ImageUrl, "E1">>,
     <<BlankTs, Author, "Bob", ImageUrl, "E2">>,
     <<TsCell(60, 0), Author, "", ImageUrl, "E1">>,
     <<TsCell(60, 0), Author, "Carol", ImageUrl, "">>,
     <<TsCell(60, 0), Author, "0", ImageUrl, "E1">>}

SheetRows == WrittenRows \cup EditedRows

Sheets == UNION {[1..n -> SheetRows] : n \in 0..MaxSheetRows}

InitAgg ==
    /\ header = ReaderHeader
    /\ ledger \in Sheets
    /\ active = {}
    /\ clock \in Instants
    /\ pending = [r \in Requests |-> Idle]
    /\ resp = NoResp

\* one command is answered over each sheet
NextAgg ==
    \/ resp = NoResp /\ Percentages
    \/ resp = NoResp /\ Statistics
    \/ resp = NoResp /\ Leaderboards

SpecAgg == InitAgg /\ [][NextAgg]_vars

(***************************************************************************)
(* The whole bot: messages, check-ins and the aggregation commands, each   *)
(* handler from its start to its end with no other in between, all within *)
(* the first second of the clock.                                          *)
(***************************************************************************)
NextAll == Messages \/ CheckIns \/ Percentages \/ Statistics \/ Leaderboards

SpecAll == Init /\ [][NextAll]_vars

(***************************************************************************)
(* Check-ins in flight together: a /party call is suspended at the await   *)
(* of line 89 and resumed later, and another call may run in between.      *)
(***************************************************************************)
\* calls that name one attendee, in name1
OneName == {names \in NameArgs : \A i \in 2..MaxNames : names[i] = None}

Gates ==
    \E r \in Requests, ch \in Channels, names \in OneName : PartyGate(r, ch, names)

Bodies == \E r \in Requests, run \in StoreRuns : PartyBody(r, run.readOk, run.budget)

NextConc == Messages \/ Gates \/ Bodies

SpecConc == Init /\ [][NextConc]_vars

(***************************************************************************)
(* Properties of the check-in recorder (specification Spec).               *)
(***************************************************************************)
\* the rows of a ledger that credit member with event
PairRows(rows, event, member) ==
    {i \in 1..Len(rows) : rows[i][5] = event /\ rows[i][3] = member}

\* the ledger as the last check-in read it
Before == SubSeq(ledger, 1, Len(ledger) - resp.appends)

\* a check-in that passed the gate and met no failure of the store
CheckedIn ==
    /\ resp.op = "party"
    /\ resp.kind # "SessionNotActive"
    /\ resp.error # "APIError"

\* C1: after check-ins run one at a time from an empty ledger, the ledger
\* has at most one row for each (event, member) pair.
C1_AtMostOneRowPerPair ==
    \A i, j \in 1..Len(ledger) :
        (ledger[i][5] = ledger[j][5] /\ ledger[i][3] = ledger[j][3]) => i = j

\* C2: a check-in for an (event, member) pair that an earlier check-in has
\* recorded once reports Duplicate for the member and appends no row for
\* the pair, which keeps exactly one row.
C2_SecondCheckInIsDuplicate ==
    CheckedIn =>
        \A k \in 1..Len(resp.members) :
            Cardinality(PairRows(Before, ChannelName(resp.channel), resp.members[k])) = 1
            => /\ resp.kind = "Summary"
               /\ resp.outcomes[k] = [member |-> resp.members[k], outcome |-> "Duplicate"]
               /\ Cardinality(PairRows(ledger, ChannelName(resp.channel),
                                       resp.members[k])) = 1

\* C3: a check-in on an active channel answers with one outcome per attendee
\* given, in the order given: Duplicate when the ledger it read had a row
\* for (event, attendee), Recorded otherwise, a row of another event never
\* counting; and it appends as many rows as it reports Recorded.
C3_OutcomePerAttendee ==
    CheckedIn =>
        /\ resp.kind = "Summary"
        /\ Len(resp.outcomes) = Len(resp.members)
        /\ \A k \in 1..Len(resp.members) :
              /\ resp.outcomes[k].member = resp.members[k]
              /\ resp.outcomes[k].outcome =
                    IF PairRows(Before, ChannelName(resp.channel), resp.members[k]) # {}
                    THEN "Duplicate" ELSE "Recorded"
        /\ resp.appends =
              Cardinality({k \in 1..Len(resp.outcomes) : resp.outcomes[k].outcome = "Recorded"})

\* C4: a check-in in a channel that is not active is answered
\* SessionNotActive without a read or an append of the store, and leaves
\* the ledger and the active set as they were.
C4_InactiveRejected ==
    [][(resp'.op = "party" /\ resp'.channel \notin active)
          => /\ resp'.kind = "SessionNotActive"
             /\ resp'.reads = 0
             /\ resp'.appends = 0
             /\ ledger' = ledger
             /\ active' = active]_vars

\* a rejection while another channel is active and the ledger has rows
C4_Witness ==
    /\ resp.kind = "SessionNotActive"
    /\ resp.channel \notin active
    /\ active # {}
    /\ ledger # <<>>

(***************************************************************************)
(* Properties of the aggregation commands (specification SpecAgg).         *)
(***************************************************************************)
\* the rows as read
Records == GetAllRecords(header, ledger)

\* the rows that have both an event and a member
CompleteRows ==
    {i \in 1..Len(Records) :
        Truthy(Get(Records[i], "Event")) /\ Truthy(Get(Records[i], "Member"))}

\* the distinct events of the ledger, and those credited to a member
LedgerEvents == {Get(Records[i], "Event") : i \in CompleteRows}

EventsCredited(member) ==
    {Get(Records[i], "Event") : i \in {j \in CompleteRows : Get(Records[j], "Member") = member}}

\* the first row that credits a member
FirstRow(member) ==
    CHOOSE i \in CompleteRows :
        /\ Get(Records[i], "Member") = member
        /\ \A j \in CompleteRows : Get(Records[j], "Member") = member => i <= j

Ranking == resp.op = "leaderboard" /\ resp.kind = "Ranking"

\* C5: on a ledger with at least one event the percentage query gives
\* 0 <= attended <= total, hence 0 <= percent <= 100, and percent is 100
\* exactly when the member is credited with as many distinct events as the
\* ledger has.
C5_PercentageBounds ==
    (resp.op = "attendance_percent" /\ resp.kind # "StoreUnavailable" /\ LedgerEvents # {})
    => /\ resp.kind = "Percentage"
       /\ 0 <= resp.attended
       /\ resp.attended <= resp.total
       /\ 0 <= resp.percent.num
       /\ resp.percent.num <= 100 * resp.percent.den
       /\ PctIs100(resp.percent)
             <=> Cardinality(EventsCredited(resp.member)) = Cardinality(LedgerEvents)

\* a percentage of 100 over two events
C5_Witness ==
    /\ resp.op = "attendance_percent"
    /\ resp.kind = "Percentage"
    /\ PctIs100(resp.percent)
    /\ resp.total = 2

\* C6: the percentage query and the leaderboard answer NoEventsRecorded,
\* and compute no percentage, exactly when the ledger has no distinct event.
C6_NoEventsRecorded ==
    (resp.op \in {"attendance_percent", "leaderboard"} /\ resp.kind # "StoreUnavailable")
    => /\ resp.kind = "NoEventsRecorded" <=> LedgerEvents = {}
       /\ resp.kind = "NoEventsRecorded" => (resp.percent = NoPercent /\ resp.board = <<>>)
       /\ resp.kind # "NoEventsRecorded" => resp.total > 0

\* the percentage query over the empty ledger
C6_Witness ==
    /\ resp.op = "attendance_percent"
    /\ resp.kind = "NoEventsRecorded"
    /\ ledger = <<>>

\* C7 as claimed: every member read from a row of the ledger is once in
\* the ranking.
C7_EveryMemberRanked ==
    Ranking =>
        \A i \in 1..Len(Records) :
            Truthy(Get(Records[i], "Member"))
            => Cardinality({k \in 1..Len(resp.board) :
                               resp.board[k].member = Get(Records[i], "Member")}) = 1

\* C7: every member read from a row that has both a member and an event is
\* once in the ranking, and the ranking has nobody else.
C7_CompleteRowsRanked ==
    Ranking =>
        /\ \A i \in CompleteRows :
              Cardinality({k \in 1..Len(resp.board) :
                              resp.board[k].member = Get(Records[i], "Member")}) = 1
        /\ \A k \in 1..Len(resp.board) :
              \E i \in CompleteRows : Get(Records[i], "Member") = resp.board[k].member

\* a ranking of two members over a ledger with a row that lacks a field
C7_Witness ==
    /\ Ranking
    /\ Len(resp.board) = 2
    /\ CompleteRows # 1..Len(ledger)

\* C8: the ranking is in descending order of percent, the percent of an
\* entry is its member's distinct events over the ledger's, times 100, and
\* the ranks are 1..n in output order.
C8_SortedAndRanked ==
    Ranking =>
        /\ \A k \in 1..Len(resp.board) :
              /\ resp.board[k].rank = k
              /\ resp.board[k].percent =
                    Percent(Cardinality(EventsCredited(resp.board[k].member)),
                            Cardinality(LedgerEvents))
        /\ \A i, j \in 1..Len(resp.board) :
              i < j => ~PctLess(resp.board[i].percent, resp.board[j].percent)

\* a ranking whose first entry is not the member of the first row
C8_Witness ==
    /\ Ranking
    /\ Len(resp.board) >= 2
    /\ PctLess(resp.board[2].percent, resp.board[1].percent)
    /\ FirstRow(resp.board[2].member) < FirstRow(resp.board[1].member)

\* C9: the order of the ranking is fixed by the rows and their order:
\* members of equal percent come in the order of their first rows, so two
\* runs over the same ledger give the same order.
C9_TiesInLedgerOrder ==
    Ranking =>
        \A i, j \in 1..Len(resp.board) :
            (i < j /\ PctEq(resp.board[i].percent, resp.board[j].percent))
            => FirstRow(resp.board[i].member) < FirstRow(resp.board[j].member)

\* a ranking with two members of equal percent
C9_Witness ==
    /\ Ranking
    /\ Len(resp.board) >= 2
    /\ PctEq(resp.board[1].percent, resp.board[2].percent)

\* C10: the statistics have last15Days <= attended, thisMonth <= attended
\* and attended <= totalEvents.
C10_WindowMonotone ==
    (resp.op = "attendance_stats" /\ resp.kind = "Stats")
    => /\ resp.last15 <= resp.attended
       /\ resp.month <= resp.attended
       /\ resp.attended <= resp.total

\* statistics with an event inside both windows and an event outside them
C10_Witness ==
    /\ resp.op = "attendance_stats"
    /\ resp.kind = "Stats"
    /\ 0 < resp.last15
    /\ resp.last15 < resp.attended
    /\ 0 < resp.month
    /\ resp.month < resp.attended

\* the ledger without the rows of a member whose timestamp is text that
\* does not parse
RowUnparseable(row, member) ==
    /\ Numericise(row[3]) = member
    /\ TsTruthy(row[1])
    /\ ~StrpTime(row[1]).ok

RECURSIVE WithoutUnparseable(_, _)
WithoutUnparseable(rows, member) ==
    IF rows = <<>> THEN <<>>
    ELSE IF RowUnparseable(Head(rows), member)
    THEN WithoutUnparseable(Tail(rows), member)
    ELSE <<Head(rows)>> \o WithoutUnparseable(Tail(rows), member)

\* the figures of the statistics over a ledger
FiguresOf(rows, member, now) ==
    LET sets == StatsOf(GetAllRecords(header, rows), member, now)
    IN  [attended |-> Cardinality(sets.total_attended),
         last15 |-> Cardinality(sets.last_15_days),
         month |-> Cardinality(sets.current_month_events)]

\* C11: a row of the queried member whose timestamp does not parse adds to
\* none of last15Days, thisMonth and attended: the statistics answer, with
\* the three figures the ledger without those rows gives.
C11_UnparseableRowExcluded ==
    (resp.op = "attendance_stats" /\ resp.kind # "StoreUnavailable")
    => /\ resp.kind = "Stats"
       /\ [attended |-> resp.attended, last15 |-> resp.last15, month |-> resp.month]
             = FiguresOf(WithoutUnparseable(ledger, resp.member), resp.member, clock)

\* the rows credited to a member whose timestamp parses, and their times
TimedRows(member) ==
    {i \in CompleteRows :
        /\ Get(Records[i], "Member") = member
        /\ StrpTime(GetTs(Records[i], "Timestamp")).ok}

TimeOf(i) == StrpTime(GetTs(Records[i], "Timestamp")).dt

\* C18: last15Days is the number of distinct events with a row credited to
\* the member whose timestamp parses to t >= now - 15 days, a row at the
\* boundary counting; thisMonth is the number of those with a row whose
\* month and year are those of now.
C18_WindowCounts ==
    (resp.op = "attendance_stats" /\ resp.kind = "Stats")
    => /\ resp.last15 =
             Cardinality({Get(Records[i], "Event") :
                 i \in {j \in TimedRows(resp.member) :
                           DtLeq(MinusDays(clock, FifteenDays), TimeOf(j))}})
       /\ resp.month =
             Cardinality({Get(Records[i], "Event") :
                 i \in {j \in TimedRows(resp.member) :
                           /\ MonthOf(TimeOf(j).ord) = MonthOf(clock.ord)
                           /\ YearOf(TimeOf(j).ord) = YearOf(clock.ord)}})

\* statistics that count an event whose only timed rows are exactly 15
\* days old
C18_Witness ==
    /\ resp.op = "attendance_stats"
    /\ resp.kind = "Stats"
    /\ resp.last15 = 1
    /\ TimedRows(resp.member) # {}
    /\ \A i \in TimedRows(resp.member) : TimeOf(i) = MinusDays(clock, FifteenDays)

\* C19: over the same ledger and for the same member, the statistics give
\* the total and the attended count that the percentage query computes,
\* also when rows lack a timestamp.
C19_StatsAgreeWithPercentage ==
    (resp.op = "attendance_stats" /\ resp.kind = "Stats")
    => LET sets == PercentOf(Records, resp.member)
       IN  /\ resp.total = Cardinality(sets.all_events)
           /\ resp.attended = Cardinality(sets.member_events)

(***************************************************************************)
(* Properties of the whole bot (specification SpecAll).                    *)
(***************************************************************************)
\* C12: when the read of the ledger fails, each of the four commands
\* answers StoreUnavailable, appends nothing, and reads once only.
C12_ReadFailureReported ==
    resp.failed = "get_all_records"
    => /\ resp.kind = "StoreUnavailable"
       /\ resp.appends = 0
       /\ resp.reads = 1

\* C13: in every step the new ledger is the old one, or the old one with
\* rows added at its end; the three aggregation commands and on_message
\* leave it as it was.
C13_AppendOnly ==
    [][/\ Len(ledger) <= Len(ledger')
       /\ SubSeq(ledger', 1, Len(ledger)) = ledger
       /\ resp'.op \in {"attendance_percent", "attendance_stats", "leaderboard",
                        "on_message"}
             => ledger' = ledger]_vars

\* a check-in has added a row to a ledger that had rows
C13_Witness ==
    /\ resp.op = "party"
    /\ resp.appends > 0
    /\ Len(ledger) > resp.appends

\* C14: every row a check-in has appended is reported to the requester as
\* a Recorded outcome of that request, also when a later append of the
\* same call fails.
C14_AppendedRowsReported ==
    resp.op = "party"
    => /\ resp.appends =
             Cardinality({k \in 1..Len(resp.outcomes) : resp.outcomes[k].outcome = "Recorded"})
       /\ \A i \in (Len(ledger) - resp.appends + 1)..Len(ledger) :
             \E k \in 1..Len(resp.outcomes) :
                 resp.outcomes[k] = [member |-> ledger[i][3], outcome |-> "Recorded"]

\* a check-in of a channel that passed the gate, and one that was rejected
PassedGate(ch) == resp.op = "party" /\ resp.channel = ch /\ resp.kind # "SessionNotActive"
Rejected(ch) == resp.op = "party" /\ resp.channel = ch /\ resp.kind = "SessionNotActive"

\* C16: the active set starts empty and no step takes a channel out of it;
\* the activation of an active channel leaves it as it is; and once a
\* check-in of a channel has passed the gate, no later check-in of that
\* channel is answered SessionNotActive.
C16_ActiveOnlyGrows ==
    /\ active = {}
    /\ [][/\ active \subseteq active'
          /\ (resp'.kind = "Activated" /\ resp'.channel \in active) => active' = active]_vars
    /\ \A ch \in Channels : [](PassedGate(ch) => []~Rejected(ch))

\* a channel in which a check-in was recorded is activated again
C16_Witness ==
    /\ resp.kind = "Activated"
    /\ \E i \in 1..Len(ledger) : ledger[i][5] = ChannelName(resp.channel)
    /\ resp.channel \in active

\* C17: the active set changes only by a message of a non-bot author that
\* mentions the bot and holds the administrator permission, which adds the
\* channel of the message; a message of a bot, one without a mention and a
\* mention by a non-administrator leave it as it is, and so does every
\* slash command.
C17_OnlyAdminMentionActivates ==
    [][/\ active' # active
             => \E ch \in Channels :
                   active' = active \cup {ch} /\ OnMessage(ch, FALSE, TRUE, TRUE)
       /\ \A ch \in Channels, authorIsBot, mentionsBot, isAdmin \in BOOLEAN :
             (OnMessage(ch, authorIsBot, mentionsBot, isAdmin)
                 /\ (authorIsBot \/ ~mentionsBot \/ ~isAdmin))
             => active' = active
       /\ resp'.op \in {"party", "attendance_percent", "attendance_stats", "leaderboard"}
             => active' = active]_vars

\* a mention by a non-administrator in a channel that is not active, while
\* another channel is
C17_Witness ==
    /\ resp.op = "on_message"
    /\ resp.kind = "AdminRequired"
    /\ resp.channel \notin active
    /\ active # {}

\* C20: on a sheet with the columns Timestamp, Recorder, Member,
\* EvidenceRef, Event, a percentage query after check-ins counts the event
\* of every recorded row in the total, and in attended for the member of
\* the row; and a check-in over a ledger that has rows reads them and
\* completes with its summary.
C20_SameColumns ==
    header = ReaderHeader
    => /\ (resp.op = "attendance_percent" /\ resp.kind # "StoreUnavailable"
              /\ ledger # <<>>)
          => /\ resp.kind = "Percentage"
             /\ resp.total = Cardinality({ledger[i][5] : i \in 1..Len(ledger)})
             /\ resp.attended =
                   Cardinality({ledger[i][5] :
                       i \in {j \in 1..Len(ledger) : ledger[j][3] = resp.member}})
       /\ (resp.op = "party" /\ resp.reads = 1 /\ resp.failed = "" /\ Before # <<>>)
          => /\ resp.kind = "Summary"
             /\ resp.error = ""

(***************************************************************************)
(* Properties of check-ins in flight together (specification SpecConc).    *)
(***************************************************************************)
\* C15 as claimed: two check-ins in flight together for a pair the ledger
\* lacked when they were accepted both decide on the ledger as it was
\* before either appended, so each reports the member Recorded and adds a
\* row for the pair.
C15_BothDecideNotYetPresent ==
    (resp.op = "party" /\ resp.kind = "Summary")
    => \A k \in 1..Len(resp.members) :
          PairRows(SubSeq(ledger, 1, resp.since), ChannelName(resp.channel),
                   resp.members[k]) = {}
          => resp.outcomes[k].outcome = "Recorded"

\* C15: a check-in resumed after its deferral reads every row appended
\* while it was suspended, and the rows it read are the rows that precede
\* its own in the ledger: no other check-in runs between its read and its
\* appends.
C15_ReadAndAppendsTogether ==
    (resp.op = "party" /\ resp.reads = 1 /\ resp.failed # "get_all_records")
    => /\ resp.since <= resp.seen
       /\ Len(ledger) = resp.seen + resp.appends

\* the second of two check-ins in flight together for the same pair has
\* read the row of the first and reports Duplicate
C15_Witness ==
    /\ resp.op = "party"
    /\ resp.kind = "Summary"
    /\ resp.since < resp.seen
    /\ \E k \in 1..Len(resp.members) :
          /\ PairRows(SubSeq(ledger, 1, resp.since), ChannelName(resp.channel),
                      resp.members[k]) = {}
          /\ resp.outcomes[k].outcome = "Duplicate"

====
